---- MODULE Spec2Model ----
(***************************************************************************)
(* Onboarding flow of the NYTHC mobile app: the App component's stage      *)
(* flags and handlers, the RoleSelection, Authentication and               *)
(* LinkedInVerification screens with their delayed (setTimeout / await)    *)
(* completions, and the alumni eligibility predicate.                      *)
(*                                                                         *)
(* Strings are sequences of one-character strings, so that toLowerCase,    *)
(* includes and the validation patterns are computed, not assumed.         *)
(* AuthUser.id (`user_${Date.now()}`) is a timestamp nothing reads; it is  *)
(* left out of the user record.                                            *)
(***************************************************************************)
EXTENDS Integers, Sequences, FiniteSets, TLC

VARIABLES
    \* App component state (useState in App)
    isLoading, showWelcome, showRoleSelection, showAuthentication,
    showLinkedInVerification, selectedRole, authenticatedUser,
    \* RoleSelectionScreen state
    cardRole,
    \* AuthenticationScreen state
    mode, authIsLoading, formData, errors,
    \* handleAuthentication calls suspended at their 2000 ms timer, oldest first
    authPending,
    \* LinkedInVerificationScreen state
    isConnecting, isVerifying, currentStep, verificationSteps,
    \* the await at which the mounted screen's handleLinkedInConnect call is
    \* suspended ("idle": no call), and how many calls of screens unmounted
    \* since are suspended at each await
    liveRun, staleRuns,
    \* setTimeout(() => onVerificationComplete(true, profile), 1500) not yet fired
    reportsPending,
    \* Alert dialogs on display
    alerts,
    \* the last event handled by App, the stage it was handled in, its
    \* argument and selectedRole before it (history variable)
    last,
    \* progress of the scripted run Splash, getStarted, roleSelected(student),
    \* authenticationComplete(student) (history variable)
    script,
    \* the result of the consent step, in the state that step leaves; "none"
    \* in every other state (history variable)
    consent,
    \* new Date().getFullYear()
    currentYear,
    \* eligibility check on its own: profile.education, the variation list and
    \* the values verifyNorfolkStateAlumni has returned
    education, variations, isVerified

appVars == <<isLoading, showWelcome, showRoleSelection, showAuthentication,
             showLinkedInVerification, selectedRole, authenticatedUser>>
authScreenVars == <<mode, authIsLoading, formData, errors>>
linkedInVars == <<isConnecting, isVerifying, currentStep, verificationSteps>>
pipelineVars == <<liveRun, staleRuns, reportsPending>>
historyVars == <<script, last>>
eligVars == <<education, variations, isVerified>>
vars == <<appVars, cardRole, authScreenVars, authPending, linkedInVars,
          pipelineVars, alerts, historyVars, consent, currentYear, eligVars>>

----------------------------------------------------------------------------
(* Bounds *)

\* handleAuthentication calls that may be suspended at the same time
MaxPending == 2

\* handleLinkedInConnect calls and delayed reports that may be outstanding at
\* the same time
MaxRuns == 1

\* education entries of a profile given to the eligibility check
MaxRecords == 2

\* length of the e-mail addresses given to the form validation
MaxEmailLen == 6

\* length of the passwords given to the form validation
MaxPasswordLen == 8

----------------------------------------------------------------------------
(* Data *)

UserRole == {"alumni", "student", "guest"}

\* null of `UserRole | null`
NullRole == "null"

\* null of `AuthUser | null`
NullUser == [null |-> TRUE]

\* undefined of `string | undefined`
None == "none"

EmptyString == <<>>

\* values typed into the e-mail field
EmailSamples == {EmptyString, <<"a", "@", "b", ".", "c">>, <<"a", "b">>}

\* values typed into the password and confirm-password fields
PasswordSamples == {EmptyString,
                    <<"a", "B", "1", "a", "a", "a", "a", "a">>,
                    <<"a", "b", "1", "a", "a", "a", "a", "a">>}

\* values typed into the name fields
NameSamples == {EmptyString, <<"S">>, <<" ">>}

\* character classes of the validation patterns: [a-z], [A-Z], \d, \s and
\* the line terminators that `.` does not match
LowerAlphabet == <<"a", "b", "c", "d", "e", "f", "g", "h", "i", "j", "k", "l", "m", "n", "o", "p", "q", "r", "s", "t", "u", "v", "w", "x", "y", "z">>
UpperAlphabet == <<"A", "B", "C", "D", "E", "F", "G", "H", "I", "J", "K", "L", "M", "N", "O", "P", "Q", "R", "S", "T", "U", "V", "W", "X", "Y", "Z">>
LowerChars == {LowerAlphabet[k] : k \in 1..Len(LowerAlphabet)}
UpperChars == {UpperAlphabet[k] : k \in 1..Len(UpperAlphabet)}
DigitChars == {"0", "1", "2", "3", "4", "5", "6", "7", "8", "9"}
LineTerminators == {"\n"}
SpaceChars == {" "} \cup LineTerminators

FormFields == {"email", "password", "confirmPassword", "firstName", "lastName"}

NoErrors ==
    [email |-> None, password |-> None, confirmPassword |-> None,
     firstName |-> None, lastName |-> None, general |-> None]

EmptyForm ==
    [email |-> EmptyString, password |-> EmptyString,
     confirmPassword |-> EmptyString, firstName |-> EmptyString,
     lastName |-> EmptyString]

----------------------------------------------------------------------------
(* Form validation (AuthenticationScreen) *)

MinPasswordLength == 8

\* /\S+@\S+\.\S+/.test(email): the pattern is not anchored, so it may match
\* any part of the string
EmailPattern(email) ==
    \E i \in 1..Len(email) : \E j \in 1..Len(email) :
        /\ i >= 2
        /\ email[i - 1] \notin SpaceChars
        /\ email[i] = "@"
        /\ j >= i + 2
        /\ \A k \in (i + 1)..(j - 1) : email[k] \notin SpaceChars
        /\ email[j] = "."
        /\ j + 1 <= Len(email)
        /\ email[j + 1] \notin SpaceChars

validateEmail(email) ==
    IF email = EmptyString THEN "Required"
    ELSE IF ~EmailPattern(email) THEN "InvalidFormat"
    ELSE None

\* (?=.*C) tried at position p: some character of class C at or after p, with
\* no line terminator between p and it
Lookahead(password, p, class) ==
    \E k \in p..Len(password) :
        /\ password[k] \in class
        /\ \A m \in p..(k - 1) : password[m] \notin LineTerminators

\* /(?=.*[a-z])(?=.*[A-Z])(?=.*\d)/.test(password)
ComplexityPattern(password) ==
    \E p \in 1..(Len(password) + 1) :
        /\ Lookahead(password, p, LowerChars)
        /\ Lookahead(password, p, UpperChars)
        /\ Lookahead(password, p, DigitChars)

validatePassword(password) ==
    IF password = EmptyString THEN "Required"
    ELSE IF Len(password) < MinPasswordLength THEN "TooShort"
    ELSE IF ~ComplexityPattern(password) THEN "WeakComplexity"
    ELSE None

\* String.prototype.trim() = ""
TrimIsEmpty(str) == \A k \in 1..Len(str) : str[k] \in SpaceChars

\* (variant: the sign-up checks are made in every mode)
FormErrors_anyMode(m, fd) ==
    [email |-> validateEmail(fd.email),
     password |-> validatePassword(fd.password),
     firstName |-> IF TrimIsEmpty(fd.firstName) THEN "Required" ELSE None,
     lastName |-> IF TrimIsEmpty(fd.lastName) THEN "Required" ELSE None,
     confirmPassword |-> IF fd.password # fd.confirmPassword
                         THEN "Mismatch" ELSE None,
     general |-> None]

\* newErrors of validateForm
FormErrors(m, fd) ==
    [email |-> validateEmail(fd.email),
     password |-> validatePassword(fd.password),
     firstName |-> IF m = "signup" /\ TrimIsEmpty(fd.firstName)
                   THEN "Required" ELSE None,
     lastName |-> IF m = "signup" /\ TrimIsEmpty(fd.lastName)
                  THEN "Required" ELSE None,
     confirmPassword |-> IF m = "signup" /\ fd.password # fd.confirmPassword
                         THEN "Mismatch" ELSE None,
     general |-> None]

\* return value of validateForm: Object.keys(newErrors).length === 0
validateForm(m, fd) == FormErrors(m, fd) = NoErrors

----------------------------------------------------------------------------
(* Alumni eligibility (LinkedInVerificationScreen) *)

\* `endDate?:` left out of an education entry
NoDate == [undefined |-> TRUE]

\* "Norfolk State University variations for matching"
norfolkStateVariations ==
    << <<"N", "o", "r", "f", "o", "l", "k", " ", "S", "t", "a", "t", "e", " ", "U", "n", "i", "v", "e", "r", "s", "i", "t", "y">>,
       <<"N", "o", "r", "f", "o", "l", "k", " ", "S", "t", "a", "t", "e", " ", "C", "o", "l", "l", "e", "g", "e">>,
       <<"N", "o", "r", "f", "o", "l", "k", " ", "S", "t", "a", "t", "e">>,
       <<"N", "S", "U">>,
       <<"N", "o", "r", "f", "o", "l", "k", " ", "S", "t", "a", "t", "e", " ", "U", "n", "i", "v">>,
       <<"N", "o", "r", "f", "o", "l", "k", " ", "S", "t", "a", "t", "e", " ", "U", "n", "i", "v", ".">> >>

\* mockEducations of fetchLinkedInProfile
mockEducations ==
    << [schoolName |-> <<"N", "o", "r", "f", "o", "l", "k", " ", "S", "t", "a", "t", "e", " ", "U", "n", "i", "v", "e", "r", "s", "i", "t", "y">>,
        endDate |-> [year |-> 2015]],
       [schoolName |-> <<"N", "o", "r", "f", "o", "l", "k", " ", "S", "t", "a", "t", "e", " ", "U", "n", "i", "v", "e", "r", "s", "i", "t", "y">>,
        endDate |-> [year |-> 2018]] >>

\* String.prototype.toLowerCase()
toLowerCase(str) ==
    [i \in 1..Len(str) |->
        IF \E k \in 1..Len(UpperAlphabet) : UpperAlphabet[k] = str[i]
        THEN LowerAlphabet[CHOOSE k \in 1..Len(UpperAlphabet) :
                               UpperAlphabet[k] = str[i]]
        ELSE str[i]]

\* String.prototype.includes(search)
includes(str, search) ==
    \E start \in 0..(Len(str) - Len(search)) :
        \A k \in 1..Len(search) : str[start + k] = search[k]

\* schoolMatch by equality instead of includes
schoolMatch_equal(edu, variationList) ==
    \E v \in 1..Len(variationList) :
        toLowerCase(edu.schoolName) = toLowerCase(variationList[v])

\* norfolkStateVariations.some(variation =>
\*     edu.schoolName?.toLowerCase().includes(variation.toLowerCase()))
schoolMatch(edu, variationList) ==
    \E v \in 1..Len(variationList) :
        includes(toLowerCase(edu.schoolName), toLowerCase(variationList[v]))

\* hasGraduated with <= for <
hasGraduated_orThisYear(edu, year) ==
    /\ edu.endDate # NoDate
    /\ edu.endDate.year <= year

\* edu.endDate && edu.endDate.year < new Date().getFullYear()
hasGraduated(edu, year) ==
    /\ edu.endDate # NoDate
    /\ edu.endDate.year < year

\* verifyNorfolkStateAlumni that looks at the first entry only
verifyNorfolkStateAlumni_firstOnly(profileEducation, variationList, year) ==
    /\ Len(profileEducation) > 0
    /\ schoolMatch(profileEducation[1], variationList)
    /\ hasGraduated(profileEducation[1], year)

\* profile.education.some(edu => schoolMatch && hasGraduated), with the
\* variation list and the current year as parameters
verifyNorfolkStateAlumni(profileEducation, variationList, year) ==
    \E e \in 1..Len(profileEducation) :
        /\ schoolMatch(profileEducation[e], variationList)
        /\ hasGraduated(profileEducation[e], year)

----------------------------------------------------------------------------
(* App: the stage that is rendered *)

\* the chain of `if (...) return <Screen/>` in App's render
StageOf(loading, welcome, roleSel, auth, linkedIn, role, user) ==
    IF loading THEN "Splash"
    ELSE IF welcome THEN "Welcome"
    ELSE IF roleSel THEN "RoleSelection"
    ELSE IF auth /\ role # NullRole THEN "Authentication"
    ELSE IF linkedIn /\ user # NullUser THEN "LinkedInVerification"
    ELSE "MainApp"

Stage ==
    StageOf(isLoading, showWelcome, showRoleSelection, showAuthentication,
            showLinkedInVerification, selectedRole, authenticatedUser)

\* AuthenticationScreen mounted: its useState initial values
AuthScreenMount ==
    /\ mode' = "signin"
    /\ authIsLoading' = FALSE
    /\ formData' = EmptyForm
    /\ errors' = NoErrors

\* useState initial value of verificationSteps: connect, verify, complete
InitialSteps == <<"active", "pending", "pending">>

\* LinkedInVerificationScreen mounted: its useState initial values
LinkedInScreenMount ==
    /\ isConnecting' = FALSE
    /\ isVerifying' = FALSE
    /\ currentStep' = 0
    /\ verificationSteps' = InitialSteps

\* the awaits of handleLinkedInConnect
RunAwaits ==
    {"createAuthURL", "startAsync", "exchangeCodeForTokens", "fetchLinkedInProfile"}

NoRuns == [a \in RunAwaits |-> 0]

RunsOutstanding ==
    (IF liveRun = "idle" THEN 0 ELSE 1)
    + staleRuns["createAuthURL"] + staleRuns["startAsync"]
    + staleRuns["exchangeCodeForTokens"] + staleRuns["fetchLinkedInProfile"]
    + reportsPending

\* an alert raised by a screen that is unmounted since: its buttons still call
\* the closures of that screen
Orphaned(alertSet) ==
    {IF a = "verificationFailed" THEN "verificationFailedStale" ELSE a :
        a \in alertSet}

\* A screen that is not rendered is unmounted; it is mounted again with its
\* initial state, while the asynchronous calls of the unmounted screen go on.
\* Conjoined last to every step that calls an App handler; alertsAfter is
\* the set of alerts the step leaves on display.
ScreensFollowWith(alertsAfter) ==
    /\ IF Stage = "RoleSelection" /\ Stage' = "RoleSelection"
       THEN UNCHANGED cardRole
       ELSE cardRole' = NullRole
    /\ IF Stage = "Authentication" /\ Stage' = "Authentication"
       THEN UNCHANGED authScreenVars
       ELSE AuthScreenMount
    /\ IF Stage = "LinkedInVerification" /\ Stage' = "LinkedInVerification"
       THEN /\ UNCHANGED <<linkedInVars, liveRun, staleRuns>>
            /\ alerts' = alertsAfter
       ELSE /\ LinkedInScreenMount
            /\ liveRun' = "idle"
            /\ staleRuns' = IF liveRun = "idle" THEN staleRuns
                            ELSE [staleRuns EXCEPT ![liveRun] = @ + 1]
            /\ alerts' = Orphaned(alertsAfter)

ScreensFollow == ScreensFollowWith(alerts)

\* history of the controller events: how far the run so far follows
\* Splash, getStarted, roleSelected(student), authenticationComplete(student)
ScriptNext(event, arg) ==
    IF script = "Splash" /\ event = "splashComplete" THEN "Welcome"
    ELSE IF script = "Welcome" /\ event = "getStarted" THEN "RoleSelection"
    ELSE IF script = "RoleSelection" /\ event = "roleSelected" /\ arg = "student"
         THEN "Authentication"
    ELSE IF script = "Authentication" /\ event = "authenticationComplete"
            /\ arg = "student"
         THEN "Done"
    ELSE "Off"

\* an event handled by App
Controller(event, arg) ==
    /\ script' = ScriptNext(event, arg)
    /\ last' = [event |-> event, from |-> Stage, arg |-> arg,
                role |-> selectedRole]

\* the modal Alert takes the touches while it is on display
NoAlert == alerts = {}

\* the year and the eligibility check on its own
Fixed == UNCHANGED <<currentYear, eligVars>>

\* a step that is not a consent step
Static ==
    /\ Fixed
    /\ consent' = "none"

----------------------------------------------------------------------------
(* App handlers *)

\* variant that leaves the loading flag set
handleSplashComplete_keepLoading ==
    UNCHANGED <<isLoading, showWelcome, showRoleSelection, showAuthentication,
                showLinkedInVerification, selectedRole, authenticatedUser>>

handleSplashComplete ==
    /\ isLoading' = FALSE
    /\ UNCHANGED <<showWelcome, showRoleSelection, showAuthentication,
                   showLinkedInVerification, selectedRole, authenticatedUser>>

handleGetStarted ==
    /\ showWelcome' = FALSE
    /\ showRoleSelection' = TRUE
    /\ UNCHANGED <<isLoading, showAuthentication, showLinkedInVerification,
                   selectedRole, authenticatedUser>>

handleSkip ==
    /\ showWelcome' = FALSE
    /\ showRoleSelection' = TRUE
    /\ UNCHANGED <<isLoading, showAuthentication, showLinkedInVerification,
                   selectedRole, authenticatedUser>>

handleRoleSelected(role) ==
    /\ selectedRole' = role
    /\ showRoleSelection' = FALSE
    /\ showAuthentication' = TRUE
    /\ UNCHANGED <<isLoading, showWelcome, showLinkedInVerification,
                   authenticatedUser>>

handleBackToWelcome ==
    /\ showRoleSelection' = FALSE
    /\ showWelcome' = TRUE
    /\ UNCHANGED <<isLoading, showAuthentication, showLinkedInVerification,
                   selectedRole, authenticatedUser>>

\* handleBackToRoleSelection without setShowRoleSelection(true)
handleBackToRoleSelection_hideOnly ==
    /\ showAuthentication' = FALSE
    /\ UNCHANGED <<isLoading, showWelcome, showRoleSelection,
                   showLinkedInVerification, selectedRole, authenticatedUser>>

handleBackToRoleSelection ==
    /\ showAuthentication' = FALSE
    /\ showRoleSelection' = TRUE
    /\ UNCHANGED <<isLoading, showWelcome, showLinkedInVerification,
                   selectedRole, authenticatedUser>>

\* NeedsLinkedIn with the wrong role test
NeedsLinkedIn_notGuest(user) == user.role # "guest"

\* `user.needsVerification && user.role === 'alumni'`
NeedsLinkedIn(user) == user.needsVerification /\ user.role = "alumni"

handleAuthenticationComplete(user) ==
    /\ authenticatedUser' = user
    /\ showAuthentication' = FALSE
    /\ showLinkedInVerification' =
          IF NeedsLinkedIn(user) THEN TRUE ELSE showLinkedInVerification
    /\ UNCHANGED <<isLoading, showWelcome, showRoleSelection, selectedRole>>

\* handleBackToAuthentication without setShowAuthentication(true)
handleBackToAuthentication_hideOnly ==
    /\ showLinkedInVerification' = FALSE
    /\ UNCHANGED <<isLoading, showWelcome, showRoleSelection,
                   showAuthentication, selectedRole, authenticatedUser>>

handleBackToAuthentication ==
    /\ showLinkedInVerification' = FALSE
    /\ showAuthentication' = TRUE
    /\ UNCHANGED <<isLoading, showWelcome, showRoleSelection, selectedRole,
                   authenticatedUser>>

\* handleLinkedInVerificationComplete that leaves the stage only when verified
handleLinkedInVerificationComplete_verifiedOnly(verified, linkedInData) ==
    /\ showLinkedInVerification' =
          IF verified THEN FALSE ELSE showLinkedInVerification
    /\ UNCHANGED <<isLoading, showWelcome, showRoleSelection,
                   showAuthentication, selectedRole, authenticatedUser>>

\* both branches of `if (verified && linkedInData)` only log
handleLinkedInVerificationComplete(verified, linkedInData) ==
    /\ showLinkedInVerification' = FALSE
    /\ UNCHANGED <<isLoading, showWelcome, showRoleSelection,
                   showAuthentication, selectedRole, authenticatedUser>>

----------------------------------------------------------------------------
(* SplashScreen and WelcomeScreen *)

\* the exit transition's callback: runOnJS(onComplete)()
onComplete ==
    /\ Stage = "Splash"
    /\ handleSplashComplete
    /\ Controller("splashComplete", "none")
    /\ UNCHANGED <<authPending, reportsPending>>
    /\ Static
    /\ ScreensFollow

handleGetStarted_Welcome ==
    /\ Stage = "Welcome"
    /\ NoAlert
    /\ handleGetStarted
    /\ Controller("getStarted", "none")
    /\ UNCHANGED <<authPending, reportsPending>>
    /\ Static
    /\ ScreensFollow

handleSkip_Welcome ==
    /\ Stage = "Welcome"
    /\ NoAlert
    /\ handleSkip
    /\ Controller("skipWelcome", "none")
    /\ UNCHANGED <<authPending, reportsPending>>
    /\ Static
    /\ ScreensFollow

----------------------------------------------------------------------------
(* RoleSelectionScreen *)

handleRoleSelect(roleId) ==
    /\ Stage = "RoleSelection"
    /\ NoAlert
    /\ cardRole' = roleId
    /\ UNCHANGED <<appVars, authScreenVars, authPending, linkedInVars,
                   pipelineVars, alerts, historyVars>>
    /\ Static

handleContinue ==
    /\ Stage = "RoleSelection"
    /\ NoAlert
    /\ cardRole # NullRole
    /\ handleRoleSelected(cardRole)
    /\ Controller("roleSelected", cardRole)
    /\ UNCHANGED <<authPending, reportsPending>>
    /\ Static
    /\ ScreensFollow

handleBack_RoleSelection ==
    /\ Stage = "RoleSelection"
    /\ NoAlert
    /\ handleBackToWelcome
    /\ Controller("backToWelcome", "none")
    /\ UNCHANGED <<authPending, reportsPending>>
    /\ Static
    /\ ScreensFollow

----------------------------------------------------------------------------
(* AuthenticationScreen *)

\* the fields rendered in the current mode
VisibleFields ==
    IF mode = "signup" THEN FormFields ELSE {"email", "password"}

\* the onboarding flow is explored with an empty and a valid value of the
\* two fields every mode validates
FlowFields == {"email", "password"}

FlowSamplesOf(field) ==
    IF field = "email" THEN {EmptyString, <<"a", "@", "b", ".", "c">>}
    ELSE {EmptyString, <<"a", "B", "1", "a", "a", "a", "a", "a">>}

SamplesOf(field) ==
    IF field = "email" THEN EmailSamples
    ELSE IF field \in {"password", "confirmPassword"} THEN PasswordSamples
    ELSE NameSamples

handleModeChange(newMode) ==
    /\ Stage = "Authentication"
    /\ NoAlert
    /\ newMode # mode
    /\ mode' = newMode
    /\ errors' = NoErrors
    /\ UNCHANGED <<authIsLoading, formData>>
    /\ UNCHANGED <<appVars, cardRole, authPending, linkedInVars, pipelineVars,
                   alerts, historyVars>>
    /\ Static

handleInputChange(field, value) ==
    /\ Stage = "Authentication"
    /\ NoAlert
    /\ field \in VisibleFields
    /\ formData' = [formData EXCEPT ![field] = value]
    /\ errors' = IF errors[field] # None
                 THEN [errors EXCEPT ![field] = None]
                 ELSE errors
    /\ UNCHANGED <<mode, authIsLoading>>
    /\ UNCHANGED <<appVars, cardRole, authPending, linkedInVars, pipelineVars,
                   alerts, historyVars>>
    /\ Static

\* (variant: the role is not the one the screen was given)
AuthClosure_fixedRole(fd, role) ==
    [email |-> fd.email, firstName |-> fd.firstName, lastName |-> fd.lastName,
     userRole |-> "guest"]

\* what the handleAuthentication closure holds while it waits for its timer
AuthClosure(fd, role) ==
    [email |-> fd.email, firstName |-> fd.firstName, lastName |-> fd.lastName,
     userRole |-> role]

\* (variant: every user needs verification)
MockUser_allNeedVerification(closure) ==
    [email |-> closure.email,
     role |-> closure.userRole,
     firstName |-> closure.firstName,
     lastName |-> closure.lastName,
     needsVerification |-> TRUE]

\* "Mock user creation"
MockUser(closure) ==
    [email |-> closure.email,
     role |-> closure.userRole,
     firstName |-> closure.firstName,
     lastName |-> closure.lastName,
     needsVerification |-> (closure.userRole = "alumni")]

\* (variant: the call is started whether or not the form validates)
handleAuthentication_noValidation(cap) ==
    /\ Stage = "Authentication"
    /\ NoAlert
    /\ ~authIsLoading
    /\ Len(authPending) < cap
    /\ authIsLoading' = TRUE
    /\ errors' = NoErrors
    /\ authPending' = Append(authPending, AuthClosure(formData, selectedRole))
    /\ UNCHANGED <<mode, formData>>
    /\ UNCHANGED <<appVars, cardRole, linkedInVars, pipelineVars, alerts,
                   historyVars>>
    /\ Static

\* handleAuthentication up to its await; the button is disabled while
\* isLoading.  cap bounds the calls suspended at the same time.
handleAuthentication(cap) ==
    /\ Stage = "Authentication"
    /\ NoAlert
    /\ ~authIsLoading
    /\ IF ~validateForm(mode, formData)
       THEN /\ errors' = FormErrors(mode, formData)
            /\ UNCHANGED <<authIsLoading, authPending>>
       ELSE /\ Len(authPending) < cap
            /\ authIsLoading' = TRUE
            /\ errors' = NoErrors
            /\ authPending' = Append(authPending, AuthClosure(formData, selectedRole))
    /\ UNCHANGED <<mode, formData>>
    /\ UNCHANGED <<appVars, cardRole, linkedInVars, pipelineVars, alerts,
                   historyVars>>
    /\ Static

\* handleAuthentication after its await: the 2000 ms timers fire in the order
\* they were set, whether or not the screen that set them is still mounted.
\* The `finally` sets isLoading of a screen that this step unmounts.
authenticationResolved ==
    /\ authPending # <<>>
    /\ handleAuthenticationComplete(MockUser(Head(authPending)))
    /\ authPending' = Tail(authPending)
    /\ Controller("authenticationComplete", Head(authPending).userRole)
    /\ UNCHANGED reportsPending
    /\ Static
    /\ ScreensFollow

handleBack_Authentication ==
    /\ Stage = "Authentication"
    /\ NoAlert
    /\ handleBackToRoleSelection
    /\ Controller("backToRoleSelection", "none")
    /\ UNCHANGED <<authPending, reportsPending>>
    /\ Static
    /\ ScreensFollow

----------------------------------------------------------------------------
(* LinkedInVerificationScreen *)

\* what the steps of the pipeline leave alone
LocalToPipeline ==
    /\ UNCHANGED <<appVars, cardRole, authScreenVars, authPending, historyVars>>
    /\ Fixed

LocalToLinkedIn ==
    /\ LocalToPipeline
    /\ consent' = "none"

\* the call suspended at await `from` goes on to await `to` ("idle": it ends)
Advance(live, from, to) ==
    IF live
    THEN /\ liveRun' = to
         /\ UNCHANGED staleRuns
    ELSE /\ UNCHANGED liveRun
         /\ staleRuns' = [a \in RunAwaits |->
                             staleRuns[a] - (IF a = from THEN 1 ELSE 0)
                                          + (IF a = to THEN 1 ELSE 0)]

SuspendedAt(live, await) ==
    IF live THEN liveRun = await ELSE staleRuns[await] > 0

\* (variant: the flags are left as they are)
Finally_keepFlags(live) ==
    UNCHANGED <<isConnecting, isVerifying>>

\* `finally`: setIsConnecting(false); setIsVerifying(false), on a mounted screen
Finally(live) ==
    IF live
    THEN /\ isConnecting' = FALSE
         /\ isVerifying' = FALSE
    ELSE UNCHANGED <<isConnecting, isVerifying>>

\* (variant: the error path does not reach `finally`)
CatchAndFinally_noFinally(live) ==
    /\ alerts' = alerts \cup {"connectionFailed"}
    /\ UNCHANGED <<isConnecting, isVerifying>>
    /\ UNCHANGED <<currentStep, verificationSteps, reportsPending>>

\* `catch`: the "Connection Failed" alert, then `finally`
CatchAndFinally(live) ==
    /\ alerts' = alerts \cup {"connectionFailed"}
    /\ Finally(live)
    /\ UNCHANGED <<currentStep, verificationSteps, reportsPending>>

\* handleLinkedInConnect up to its first await; the button is disabled while
\* isConnecting or isVerifying.  cap bounds the calls and reports outstanding.
handleLinkedInConnect(cap) ==
    /\ Stage = "LinkedInVerification"
    /\ NoAlert
    /\ ~(isConnecting \/ isVerifying)
    /\ RunsOutstanding < cap
    /\ isConnecting' = TRUE
    /\ liveRun' = "createAuthURL"
    /\ UNCHANGED <<isVerifying, currentStep, verificationSteps, staleRuns,
                   reportsPending, alerts>>
    /\ LocalToLinkedIn

\* Step 1 done: `await createAuthURL()` returns the URL and the state value,
\* or the digest rejects
createAuthURLResolved(live, outcome) ==
    /\ SuspendedAt(live, "createAuthURL")
    /\ IF outcome = "ok"
       THEN /\ Advance(live, "createAuthURL", "startAsync")
            /\ UNCHANGED <<linkedInVars, reportsPending, alerts>>
       ELSE /\ Advance(live, "createAuthURL", "idle")
            /\ CatchAndFinally(live)
    /\ LocalToLinkedIn

\* (variant: the state value of the result is not compared with that of step 1)
startAsyncResolved_anyState(live, result) ==
    /\ SuspendedAt(live, "startAsync")
    /\ IF result \in {"success", "mismatch"}
       THEN /\ Advance(live, "startAsync", "exchangeCodeForTokens")
            /\ IF live
               THEN /\ currentStep' = 1
                    /\ isVerifying' = TRUE
               ELSE UNCHANGED <<currentStep, isVerifying>>
            /\ UNCHANGED <<isConnecting, verificationSteps, reportsPending, alerts>>
       ELSE IF result = "cancel"
       THEN /\ Advance(live, "startAsync", "idle")
            /\ Finally(live)
            /\ UNCHANGED <<currentStep, verificationSteps, reportsPending, alerts>>
       ELSE /\ Advance(live, "startAsync", "idle")
            /\ CatchAndFinally(live)
    /\ consent' = result
    /\ LocalToPipeline

\* (variant: every result but success is taken for a failure)
startAsyncResolved_cancelThrows(live, result) ==
    /\ SuspendedAt(live, "startAsync")
    /\ IF result = "success"
       THEN /\ Advance(live, "startAsync", "exchangeCodeForTokens")
            /\ IF live
               THEN /\ currentStep' = 1
                    /\ isVerifying' = TRUE
               ELSE UNCHANGED <<currentStep, isVerifying>>
            /\ UNCHANGED <<isConnecting, verificationSteps, reportsPending, alerts>>
       ELSE /\ Advance(live, "startAsync", "idle")
            /\ CatchAndFinally(live)
    /\ consent' = result
    /\ LocalToPipeline

\* Step 2 done: `await AuthSession.startAsync({ authUrl })` returns
\*   "success"  type success, a code, and the state value of step 1
\*   "mismatch" type success with another state value or without a code
\*   "cancel"   type cancel
\*   "error"    any other type
startAsyncResolved(live, result) ==
    /\ SuspendedAt(live, "startAsync")
    /\ IF result = "success"
       THEN /\ Advance(live, "startAsync", "exchangeCodeForTokens")
            /\ IF live
               THEN /\ currentStep' = 1
                    /\ isVerifying' = TRUE
               ELSE UNCHANGED <<currentStep, isVerifying>>
            /\ UNCHANGED <<isConnecting, verificationSteps, reportsPending, alerts>>
       ELSE IF result = "cancel"
       THEN /\ Advance(live, "startAsync", "idle")
            /\ Finally(live)
            /\ UNCHANGED <<currentStep, verificationSteps, reportsPending, alerts>>
       ELSE /\ Advance(live, "startAsync", "idle")
            /\ CatchAndFinally(live)
    /\ consent' = result
    /\ LocalToPipeline

\* (variant: step 3 done, and the result reported without the profile fetch)
exchangeCodeForTokensResolved_skipFetch(live) ==
    /\ SuspendedAt(live, "exchangeCodeForTokens")
    /\ Advance(live, "exchangeCodeForTokens", "idle")
    /\ reportsPending' = reportsPending + 1
    /\ Finally(live)
    /\ UNCHANGED <<currentStep, verificationSteps, alerts>>
    /\ LocalToLinkedIn

\* Step 3 done: the 1500 ms timer of exchangeCodeForTokens
exchangeCodeForTokensResolved(live) ==
    /\ SuspendedAt(live, "exchangeCodeForTokens")
    /\ Advance(live, "exchangeCodeForTokens", "fetchLinkedInProfile")
    /\ UNCHANGED <<linkedInVars, reportsPending, alerts>>
    /\ LocalToLinkedIn

\* prev.map((step, index) => ({...step, status: index <= 2 ? 'completed' : 'pending'}))
StepsCompleted(steps) ==
    [index \in 1..Len(steps) |-> IF index - 1 <= 2 THEN "completed" ELSE "pending"]

\* prev.map((step, index) => ({...step, status: index === 1 ? 'error' : step.status}))
StepsError(steps) ==
    [index \in 1..Len(steps) |-> IF index - 1 = 1 THEN "error" ELSE steps[index]]

\* (variant: the result of the evaluation is not looked at)
fetchLinkedInProfileResolved_alwaysVerified(live) ==
    /\ SuspendedAt(live, "fetchLinkedInProfile")
    /\ Advance(live, "fetchLinkedInProfile", "idle")
    /\ LET verified == TRUE
       IN /\ IF live
             THEN /\ currentStep' = 2
                  /\ verificationSteps' = IF verified
                                          THEN StepsCompleted(verificationSteps)
                                          ELSE StepsError(verificationSteps)
             ELSE UNCHANGED <<currentStep, verificationSteps>>
          /\ IF verified
             THEN /\ reportsPending' = reportsPending + 1
                  /\ UNCHANGED alerts
             ELSE /\ alerts' = alerts \cup
                        {IF live THEN "verificationFailed"
                                 ELSE "verificationFailedStale"}
                  /\ UNCHANGED reportsPending
    /\ Finally(live)
    /\ LocalToLinkedIn

\* Step 4 done (the 2000 ms timer of fetchLinkedInProfile), step 5, and the rest
\* of the try block with its `finally`
fetchLinkedInProfileResolved(live) ==
    /\ SuspendedAt(live, "fetchLinkedInProfile")
    /\ Advance(live, "fetchLinkedInProfile", "idle")
    /\ LET verified == verifyNorfolkStateAlumni(mockEducations,
                                                norfolkStateVariations, currentYear)
       IN /\ IF live
             THEN /\ currentStep' = 2
                  /\ verificationSteps' = IF verified
                                          THEN StepsCompleted(verificationSteps)
                                          ELSE StepsError(verificationSteps)
             ELSE UNCHANGED <<currentStep, verificationSteps>>
          /\ IF verified
             THEN /\ reportsPending' = reportsPending + 1
                  /\ UNCHANGED alerts
             ELSE /\ alerts' = alerts \cup
                        {IF live THEN "verificationFailed"
                                 ELSE "verificationFailedStale"}
                  /\ UNCHANGED reportsPending
    /\ Finally(live)
    /\ LocalToLinkedIn

\* the 1500 ms timer set on success fires: onVerificationComplete(true, profile)
verificationReported ==
    /\ reportsPending > 0
    /\ reportsPending' = reportsPending - 1
    /\ handleLinkedInVerificationComplete(TRUE, "profile")
    /\ Controller("verificationComplete", "verified")
    /\ UNCHANGED authPending
    /\ Static
    /\ ScreensFollow

\* handleSkip: the "Skip LinkedIn Verification?" alert
handleSkip_LinkedIn ==
    /\ Stage = "LinkedInVerification"
    /\ NoAlert
    /\ alerts' = alerts \cup {"skipConfirm"}
    /\ UNCHANGED <<linkedInVars, pipelineVars>>
    /\ LocalToLinkedIn

\* "Cancel" of the skip alert
alertCancel ==
    /\ "skipConfirm" \in alerts
    /\ alerts' = alerts \ {"skipConfirm"}
    /\ UNCHANGED <<linkedInVars, pipelineVars>>
    /\ LocalToLinkedIn

\* "Skip for Now" of the skip alert: onSkip(), which App binds to
\* handleLinkedInVerificationComplete(false)
alertSkipForNow ==
    /\ "skipConfirm" \in alerts
    /\ handleLinkedInVerificationComplete(FALSE, None)
    /\ Controller("verificationComplete", "skipped")
    /\ UNCHANGED <<authPending, reportsPending>>
    /\ Static
    /\ ScreensFollowWith(alerts \ {"skipConfirm"})

\* "Try Again" of the "Verification Failed" alert: setCurrentStep(0)
alertTryAgain(alert) ==
    /\ alert \in alerts \cap {"verificationFailed", "verificationFailedStale"}
    /\ alerts' = alerts \ {alert}
    /\ currentStep' = IF alert = "verificationFailed" THEN 0 ELSE currentStep
    /\ UNCHANGED <<isConnecting, isVerifying, verificationSteps, pipelineVars>>
    /\ LocalToLinkedIn

\* "Skip for Now" of the "Verification Failed" alert: handleSkip
alertSkip(alert) ==
    /\ alert \in alerts \cap {"verificationFailed", "verificationFailedStale"}
    /\ alerts' = (alerts \ {alert}) \cup {"skipConfirm"}
    /\ UNCHANGED <<linkedInVars, pipelineVars>>
    /\ LocalToLinkedIn

\* "OK" of the "Connection Failed" alert
alertOK ==
    /\ "connectionFailed" \in alerts
    /\ alerts' = alerts \ {"connectionFailed"}
    /\ UNCHANGED <<linkedInVars, pipelineVars>>
    /\ LocalToLinkedIn

handleBack_LinkedIn ==
    /\ Stage = "LinkedInVerification"
    /\ NoAlert
    /\ handleBackToAuthentication
    /\ Controller("backToAuthentication", "none")
    /\ UNCHANGED <<authPending, reportsPending>>
    /\ Static
    /\ ScreensFollow

----------------------------------------------------------------------------
(* Specification of the onboarding flow *)

\* the state after App is constructed
AppInit ==
    /\ isLoading = TRUE
    /\ showWelcome = TRUE
    /\ showRoleSelection = FALSE
    /\ showAuthentication = FALSE
    /\ showLinkedInVerification = FALSE
    /\ selectedRole = NullRole
    /\ authenticatedUser = NullUser
    /\ cardRole = NullRole
    /\ mode = "signin"
    /\ authIsLoading = FALSE
    /\ formData = EmptyForm
    /\ errors = NoErrors
    /\ authPending = <<>>
    /\ isConnecting = FALSE
    /\ isVerifying = FALSE
    /\ currentStep = 0
    /\ verificationSteps = InitialSteps
    /\ liveRun = "idle"
    /\ staleRuns = NoRuns
    /\ reportsPending = 0
    /\ alerts = {}
    /\ script = "Splash"
    /\ last = [event |-> "none", from |-> "none", arg |-> "none",
               role |-> NullRole]
    /\ consent = "none"

\* the eligibility check is not exercised on its own
EligIdle ==
    /\ education = <<>>
    /\ variations = <<>>
    /\ isVerified = <<>>

\* years the flow is explored in
FlowYears == {2024}

\* results of the consent step the flow is explored with
FlowConsentResults == {"success", "cancel"}

Init ==
    /\ AppInit
    /\ currentYear \in FlowYears
    /\ EligIdle

\* The mode tabs are exercised in SpecForm: with the two fields typed here a
\* sign-up form never validates, so the flow is explored in the mode the
\* screen is mounted in.
Next ==
    \/ onComplete
    \/ handleGetStarted_Welcome
    \/ handleSkip_Welcome
    \/ \E roleId \in UserRole : handleRoleSelect(roleId)
    \/ handleContinue
    \/ handleBack_RoleSelection
    \/ \E field \in FlowFields : \E value \in FlowSamplesOf(field) :
          handleInputChange(field, value)
    \/ handleAuthentication(MaxPending)
    \/ authenticationResolved
    \/ handleBack_Authentication
    \/ handleLinkedInConnect(MaxRuns)
    \/ \E live \in BOOLEAN : createAuthURLResolved(live, "ok")
    \/ \E live \in BOOLEAN : \E result \in FlowConsentResults :
          startAsyncResolved(live, result)
    \/ \E live \in BOOLEAN : exchangeCodeForTokensResolved(live)
    \/ \E live \in BOOLEAN : fetchLinkedInProfileResolved(live)
    \/ verificationReported
    \/ handleSkip_LinkedIn
    \/ alertCancel
    \/ alertSkipForNow
    \/ handleBack_LinkedIn

Spec == Init /\ [][Next]_vars

----------------------------------------------------------------------------
(* Specification of the onboarding flow with the failures of the pipeline *)

\* years the pipeline is explored in: the mock profile's end years are 2015
\* and 2018, so the evaluation returns false in 2015 and true in 2024
PipelineYears == {2015, 2024}

\* outcomes of step 1: the URL and the state value, or the digest rejects
AuthURLOutcomes == {"ok", "reject"}

\* results of the consent step
ConsentResults == {"success", "mismatch", "cancel", "error"}

\* roles the pipeline is explored with: the one that is sent to
\* LinkedInVerification and one that is not
PipelineRoles == {"alumni", "student"}

InitPipeline ==
    /\ AppInit
    /\ currentYear \in PipelineYears
    /\ EligIdle

NextPipeline ==
    \/ onComplete
    \/ handleGetStarted_Welcome
    \/ \E roleId \in PipelineRoles : handleRoleSelect(roleId)
    \/ handleContinue
    \/ handleBack_RoleSelection
    \/ \E field \in FlowFields : \E value \in FlowSamplesOf(field) :
          handleInputChange(field, value)
    \/ handleAuthentication(MaxRuns)
    \/ authenticationResolved
    \/ handleBack_Authentication
    \/ handleLinkedInConnect(MaxRuns)
    \/ \E live \in BOOLEAN : \E outcome \in AuthURLOutcomes :
          createAuthURLResolved(live, outcome)
    \/ \E live \in BOOLEAN : \E result \in ConsentResults :
          startAsyncResolved(live, result)
    \/ \E live \in BOOLEAN : exchangeCodeForTokensResolved(live)
    \/ \E live \in BOOLEAN : fetchLinkedInProfileResolved(live)
    \/ verificationReported
    \/ handleSkip_LinkedIn
    \/ alertCancel
    \/ alertSkipForNow
    \/ \E alert \in {"verificationFailed", "verificationFailedStale"} :
          alertTryAgain(alert)
    \/ \E alert \in {"verificationFailed", "verificationFailedStale"} :
          alertSkip(alert)
    \/ alertOK
    \/ handleBack_LinkedIn

SpecPipeline == InitPipeline /\ [][NextPipeline]_vars

\* Timers fire and pending promises settle; nothing obliges the user to act.
PipelineFairness ==
    /\ WF_vars(authenticationResolved)
    /\ WF_vars(\E live \in BOOLEAN : createAuthURLResolved(live, "ok"))
    /\ WF_vars(\E live \in BOOLEAN : exchangeCodeForTokensResolved(live))
    /\ WF_vars(\E live \in BOOLEAN : fetchLinkedInProfileResolved(live))
    /\ WF_vars(verificationReported)

\* the exit transition of the splash animation is scheduled on mount, with
\* a delay of 2500 ms, and runs to its end
SplashFairness == WF_vars(onComplete)

SpecPipelineFair == SpecPipeline /\ PipelineFairness

----------------------------------------------------------------------------
(* Specification of the flow with its timers: the splash and the submitted
   forms.  Every step that calls a handler of App but the delayed report of
   the pipeline is here; the pipeline itself is in SpecPipeline. *)

NextSubmit ==
    \/ onComplete
    \/ handleGetStarted_Welcome
    \/ handleSkip_Welcome
    \/ \E roleId \in UserRole : handleRoleSelect(roleId)
    \/ handleContinue
    \/ handleBack_RoleSelection
    \/ \E field \in FlowFields : \E value \in FlowSamplesOf(field) :
          handleInputChange(field, value)
    \/ handleAuthentication(MaxPending)
    \/ authenticationResolved
    \/ handleBack_Authentication
    \/ handleSkip_LinkedIn
    \/ alertCancel
    \/ alertSkipForNow
    \/ handleBack_LinkedIn

SpecSubmit == Init /\ [][NextSubmit]_vars

\* the 2000 ms timer of a submitted form fires
SubmitFairness == WF_vars(authenticationResolved)

SpecSubmitFair == SpecSubmit /\ SubmitFairness /\ SplashFairness

----------------------------------------------------------------------------
(* Specification of the form validation *)

\* all strings of at most n characters of an alphabet
StringsUpTo(alphabet, n) == UNION {[1..k -> alphabet] : k \in 0..n}

\* e-mail addresses: a letter, the two separators of the pattern, a space
EmailAlphabet == {"a", "@", ".", " "}

\* passwords: one character of each class of the pattern, a line terminator
PasswordAlphabet == {"a", "A", "1", "\n"}

ValidEmail == <<"a", "@", "b", ".", "c">>

ValidPassword == <<"a", "B", "1", "a", "a", "a", "a", "a">>

\* the forms submitted: every e-mail address in an otherwise valid form,
\* every password in an otherwise valid form, and every combination of the
\* sample values of the five fields
FormInputs ==
    [email : StringsUpTo(EmailAlphabet, MaxEmailLen), password : {ValidPassword},
     confirmPassword : {ValidPassword}, firstName : {<<"S">>}, lastName : {<<"S">>}]
    \cup
    [email : {ValidEmail}, password : StringsUpTo(PasswordAlphabet, MaxPasswordLen),
     confirmPassword : {ValidPassword}, firstName : {<<"S">>}, lastName : {<<"S">>}]
    \cup
    [email : EmailSamples, password : PasswordSamples,
     confirmPassword : PasswordSamples, firstName : NameSamples,
     lastName : NameSamples]

\* the AuthenticationScreen of a student, mounted, with a form typed in
InitForm ==
    /\ isLoading = FALSE
    /\ showWelcome = FALSE
    /\ showRoleSelection = FALSE
    /\ showAuthentication = TRUE
    /\ showLinkedInVerification = FALSE
    /\ selectedRole = "student"
    /\ authenticatedUser = NullUser
    /\ cardRole = NullRole
    /\ mode = "signin"
    /\ authIsLoading = FALSE
    /\ formData \in FormInputs
    /\ errors = NoErrors
    /\ authPending = <<>>
    /\ isConnecting = FALSE
    /\ isVerifying = FALSE
    /\ currentStep = 0
    /\ verificationSteps = InitialSteps
    /\ liveRun = "idle"
    /\ staleRuns = NoRuns
    /\ reportsPending = 0
    /\ alerts = {}
    /\ script = "Off"
    /\ last = [event |-> "roleSelected", from |-> "RoleSelection",
               arg |-> "student", role |-> NullRole]
    /\ consent = "none"
    /\ currentYear \in FlowYears
    /\ EligIdle

NextForm ==
    \/ \E newMode \in {"signin", "signup"} : handleModeChange(newMode)
    \/ handleAuthentication(MaxPending)

SpecForm == InitForm /\ [][NextForm]_vars

----------------------------------------------------------------------------
(* Specification of the eligibility check on its own *)

\* school names of the profiles checked: the mock profile's, one that holds a
\* variation in other letter case and not at its start, one of another
\* school, and one that is only part of a variation
SchoolSamples ==
    { <<"N", "o", "r", "f", "o", "l", "k", " ", "S", "t", "a", "t", "e", " ", "U", "n", "i", "v", "e", "r", "s", "i", "t", "y">>,
      <<"m", "y", " ", "n", "s", "u">>,
      <<"H", "a", "m", "p", "t", "o", "n", " ", "U", "n", "i", "v", "e", "r", "s", "i", "t", "y">>,
      <<"N", "o", "r", "f", "o", "l", "k">> }

Years == {2024, 2025}

EndDateSamples == {NoDate, [year |-> 2015], [year |-> 2024], [year |-> 2030]}

EducationSamples == [schoolName : SchoolSamples, endDate : EndDateSamples]

\* variation lists the check is run with: entries of norfolkStateVariations
VariationSamples ==
    { <<norfolkStateVariations[4]>>,
      <<norfolkStateVariations[3]>>,
      <<norfolkStateVariations[4], norfolkStateVariations[3]>>,
      <<norfolkStateVariations[3], norfolkStateVariations[4]>> }

\* one more entry in profile.education
AddEducation(edu) ==
    /\ isVerified = <<>>
    /\ Len(education) < MaxRecords
    /\ education' = Append(education, edu)
    /\ UNCHANGED <<variations, isVerified, currentYear>>
    /\ UNCHANGED <<appVars, cardRole, authScreenVars, authPending, linkedInVars,
                   pipelineVars, alerts, historyVars, consent>>

\* const isVerified = verifyNorfolkStateAlumni(profile)
Verify ==
    /\ isVerified = <<>>
    /\ isVerified' = <<verifyNorfolkStateAlumni(education, variations, currentYear)>>
    /\ UNCHANGED <<education, variations, currentYear>>
    /\ UNCHANGED <<appVars, cardRole, authScreenVars, authPending, linkedInVars,
                   pipelineVars, alerts, historyVars, consent>>

InitElig ==
    /\ AppInit
    /\ currentYear \in Years
    /\ education = <<>>
    /\ variations \in VariationSamples
    /\ isVerified = <<>>

NextElig ==
    \/ \E edu \in EducationSamples : AddEducation(edu)
    \/ Verify

SpecElig == InitElig /\ [][NextElig]_vars

----------------------------------------------------------------------------
(* Properties of the onboarding flow *)

\* the stage flags that are true
StageFlags ==
    LET flag == [showWelcome |-> showWelcome,
                 showRoleSelection |-> showRoleSelection,
                 showAuthentication |-> showAuthentication,
                 showLinkedInVerification |-> showLinkedInVerification]
    IN {f \in DOMAIN flag : flag[f]}

\* C1: whenever the current stage is LinkedInVerification, the stored
\* authenticated user has role alumni and needsVerification true.
C1_LinkedInOnlyForAlumni ==
    Stage = "LinkedInVerification" =>
        /\ authenticatedUser.role = "alumni"
        /\ authenticatedUser.needsVerification

\* C2: authenticationComplete(user) handled at the Authentication stage leads
\* to LinkedInVerification iff user.role is alumni, and to MainApp iff it is
\* not.  (Only events change the stage, so the stage after the event is the
\* stage of every state whose last event it is.)
C2_AuthenticationCompleteBranches ==
    (last.event = "authenticationComplete" /\ last.from = "Authentication") =>
        /\ (Stage = "LinkedInVerification") <=> (last.arg = "alumni")
        /\ (Stage = "MainApp") <=> (last.arg # "alumni")

\* C3: once Splash has completed, at most one of the stage flags showWelcome,
\* showRoleSelection, showAuthentication, showLinkedInVerification is true.
C3_AtMostOneStageFlag ==
    ~isLoading => Cardinality(StageFlags) <= 1

\* C4: the run Splash, getStarted, roleSelected(student),
\* authenticationComplete(student user) passes through Welcome, RoleSelection
\* and Authentication, ends at MainApp, and is never at LinkedInVerification.
C4_StudentRunSkipsLinkedIn ==
    script # "Off" =>
        /\ Stage = (IF script = "Done" THEN "MainApp" ELSE script)
        /\ Stage # "LinkedInVerification"

C4_Witness ==
    /\ script = "Done"
    /\ Stage = "MainApp"
    /\ authenticatedUser # NullUser

\* C5: verificationComplete handled at LinkedInVerification, with verified
\* true (the delayed report) or false (skip), leads to MainApp.
C5_VerificationCompleteEntersMainApp ==
    (last.event = "verificationComplete" /\ last.from = "LinkedInVerification") =>
        Stage = "MainApp"

C5_Witness ==
    /\ last.event = "verificationComplete"
    /\ last.from = "LinkedInVerification"
    /\ last.arg = "skipped"
    /\ Stage = "MainApp"

\* C6: back handled at Authentication leads to RoleSelection, whatever the
\* selected role and whether or not a user was authenticated before.
C6_BackFromAuthentication ==
    last.event = "backToRoleSelection" =>
        /\ last.from = "Authentication"
        /\ Stage = "RoleSelection"

C6_Witness ==
    /\ last.event = "backToRoleSelection"
    /\ last.role = "guest"
    /\ authenticatedUser # NullUser
    /\ Stage = "RoleSelection"

\* C7: back handled at LinkedInVerification leads to Authentication, rendered
\* with the role that was selected before the event.
C7_BackFromLinkedIn ==
    last.event = "backToAuthentication" =>
        /\ last.from = "LinkedInVerification"
        /\ Stage = "Authentication"
        /\ selectedRole \in UserRole
        /\ selectedRole = last.role

C7_Witness ==
    /\ last.event = "backToAuthentication"
    /\ Stage = "Authentication"
    /\ selectedRole = "alumni"

----------------------------------------------------------------------------
(* Properties of the verification pipeline *)

\* handleLinkedInConnect calls suspended at an await, of the mounted screen and
\* of the screens unmounted since
RunsAt(await) == staleRuns[await] + (IF liveRun = await THEN 1 ELSE 0)

\* one call more is suspended at await `to`, and it is a call that was
\* suspended at await `from`
Entered(from, to) ==
    RunsAt(to)' > RunsAt(to) =>
        /\ RunsAt(to)' = RunsAt(to) + 1
        /\ RunsAt(from)' = RunsAt(from) - 1

ConsentStep(result) == \E live \in BOOLEAN : startAsyncResolved(live, result)

\* C12: a cancelled consent ends the run with no side effect.  The step that
\* handles the cancellation starts no token exchange and no profile fetch,
\* schedules and delivers no report, raises no alert, and leaves the stage,
\* the App state, the current verification step and the step statuses as
\* they are; so do the steps of the run before it (the start of the run and
\* its step 1), which change nothing but the connecting flag that the
\* cancellation resets.
C12_CancelHasNoSideEffect ==
    [][ /\ ConsentStep("cancel") =>
              /\ RunsAt("startAsync")' = RunsAt("startAsync") - 1
              /\ \A a \in RunAwaits \ {"startAsync"} : RunsAt(a)' = RunsAt(a)
              /\ reportsPending' = reportsPending
              /\ last' = last
              /\ Stage' = Stage
              /\ UNCHANGED <<appVars, currentStep, verificationSteps, alerts>>
              /\ liveRun' = "idle" => (~isConnecting' /\ ~isVerifying')
        /\ (liveRun' \in {"createAuthURL", "startAsync"} /\ liveRun' # liveRun) =>
              /\ Stage' = Stage
              /\ UNCHANGED <<appVars, currentStep, verificationSteps, alerts,
                             isVerifying, reportsPending>>
              /\ ~isVerifying
      ]_vars

\* the screen after a cancelled run, as it was mounted
C12_Witness ==
    /\ consent = "cancel"
    /\ Stage = "LinkedInVerification"
    /\ liveRun = "idle"
    /\ RunsOutstanding = 0
    /\ <<isConnecting, isVerifying, currentStep, verificationSteps>>
          = <<FALSE, FALSE, 0, InitialSteps>>
    /\ alerts = {}

\* C13: a consent result whose state value differs from the one generated in
\* step 1 aborts the run and the failure is shown to the user: the step that
\* handles it ends the run, starts no token exchange and no profile fetch,
\* schedules and delivers no report, and leaves the failure alert on display.
C13_StateMismatchAborts ==
    [][ ConsentStep("mismatch") =>
              /\ RunsAt("startAsync")' = RunsAt("startAsync") - 1
              /\ \A a \in RunAwaits \ {"startAsync"} : RunsAt(a)' = RunsAt(a)
              /\ reportsPending' = reportsPending
              /\ last' = last
              /\ UNCHANGED <<appVars, currentStep, verificationSteps>>
              /\ "connectionFailed" \in alerts'
              /\ liveRun' = "idle" => (~isConnecting' /\ ~isVerifying')
      ]_vars

\* the failure alert of a run that ended at a mismatching state value
C13_Witness ==
    /\ consent = "mismatch"
    /\ "connectionFailed" \in alerts
    /\ Stage = "LinkedInVerification"
    /\ RunsOutstanding = 0
    /\ currentStep = 0

\* a run has reached the eligibility evaluation, which returned true (its
\* report is scheduled) or false (its alert is on display)
EvaluatedTrue == reportsPending > 0
EvaluatedFalse == alerts \cap {"verificationFailed", "verificationFailedStale"} # {}

\* C14: every run that reaches the eligibility evaluation eventually reports
\* to the caller through verificationComplete, when the evaluation returned
\* true and when it returned false.
C14_EvaluatedRunReports ==
    ((EvaluatedTrue \/ EvaluatedFalse) /\ last.event # "verificationComplete")
        ~> (last.event = "verificationComplete")

\* C15: at most one simulated asynchronous operation (an authentication call,
\* or a pipeline run with its delayed report) is outstanding at any time, and
\* while one is outstanding the control that starts it is disabled on the
\* screen that shows it.
C15_AtMostOneAsyncOperation ==
    /\ Len(authPending) + RunsOutstanding <= 1
    /\ (authPending # <<>> /\ Stage = "Authentication") => authIsLoading
    /\ (RunsOutstanding > 0 /\ Stage = "LinkedInVerification") =>
          (isConnecting \/ isVerifying)

\* C16: after back at LinkedInVerification a run that was awaiting a step
\* does not go on: the only way a run of an unmounted screen comes to be
\* suspended at an await is that the event which unmounted the screen (back,
\* or another event that leaves the stage) found it there; no such run moves
\* on to a later await, and none schedules a report.
C16_BackStopsPipeline ==
    [][ /\ \A a \in RunAwaits :
              staleRuns'[a] > staleRuns[a] =>
                  /\ liveRun = a
                  /\ liveRun' = "idle"
                  /\ Stage = "LinkedInVerification"
                  /\ Stage' # "LinkedInVerification"
        /\ reportsPending' > reportsPending => staleRuns' = staleRuns
      ]_vars

----------------------------------------------------------------------------
(* Properties of the form validation *)

\* validateForm has run on the form and in the mode of this state: it left
\* errors on display, or the call it allowed is in progress.  (Typing into a
\* field and changing the mode clear the errors they make stale; the errors
\* of the e-mail address and of the password do not depend on the mode.)
Submitted == errors # NoErrors \/ authIsLoading

\* the whole string is <non-space>+ @ <non-space>+ . <non-space>+
MatchesWhole(email) ==
    /\ \A k \in 1..Len(email) : email[k] \notin SpaceChars
    /\ \E i \in 1..Len(email) : \E j \in 1..Len(email) :
          /\ 1 < i /\ i + 1 < j /\ j < Len(email)
          /\ email[i] = "@"
          /\ email[j] = "."

\* C17: validateEmail returns Required for the empty string, InvalidFormat
\* for every other string that does not as a whole match
\* <non-space>+@<non-space>+.<non-space>+, and no error for the strings that
\* match.
C17_EmailWholeStringPattern ==
    Submitted =>
        errors.email = (IF formData.email = EmptyString THEN "Required"
                        ELSE IF ~MatchesWhole(formData.email) THEN "InvalidFormat"
                        ELSE None)

\* some character of the password is of the class
HasClass(password, class) == \E k \in 1..Len(password) : password[k] \in class

\* C18: validatePassword returns Required for the empty string, otherwise
\* TooShort below 8 characters, otherwise WeakComplexity when a lowercase
\* letter, an uppercase letter or a digit is missing, and no error for every
\* password of at least 8 characters that has all three, wherever they are.
C18_PasswordRules ==
    Submitted =>
        errors.password =
            (IF formData.password = EmptyString THEN "Required"
             ELSE IF Len(formData.password) < 8 THEN "TooShort"
             ELSE IF ~(/\ HasClass(formData.password, LowerChars)
                       /\ HasClass(formData.password, UpperChars)
                       /\ HasClass(formData.password, DigitChars))
                  THEN "WeakComplexity"
             ELSE None)

\* the name has a character that is not white space
NameGiven(name) == \E k \in 1..Len(name) : name[k] \notin SpaceChars

\* C19: validateForm applies validateEmail and validatePassword in every
\* mode; in signup mode it also reports Required for an empty firstName and
\* for an empty lastName and Mismatch when password and confirmPassword
\* differ; in signin mode those three fields have no influence.  The errors
\* are reported together, and the form succeeds iff there is none: a submit
\* starts the call iff no field has an error, and otherwise displays the
\* error of every field.  (A name of white space only counts as empty in the
\* code; the claim leaves it open, and so does the error expected for it.)
C19_FormErrorsAreUnion ==
    [][ handleAuthentication(MaxPending) =>
          /\ authIsLoading' <=>
                /\ validateEmail(formData.email) = None
                /\ validatePassword(formData.password) = None
                /\ mode = "signup" =>
                      /\ NameGiven(formData.firstName)
                      /\ NameGiven(formData.lastName)
                      /\ formData.password = formData.confirmPassword
          /\ ~authIsLoading' =>
                /\ errors'.email = validateEmail(formData.email)
                /\ errors'.password = validatePassword(formData.password)
                /\ errors'.general = None
                /\ mode = "signup" =>
                      /\ formData.firstName = EmptyString =>
                            errors'.firstName = "Required"
                      /\ NameGiven(formData.firstName) => errors'.firstName = None
                      /\ formData.lastName = EmptyString =>
                            errors'.lastName = "Required"
                      /\ NameGiven(formData.lastName) => errors'.lastName = None
                      /\ errors'.confirmPassword =
                            (IF formData.password # formData.confirmPassword
                             THEN "Mismatch" ELSE None)
                /\ mode = "signin" =>
                      /\ errors'.firstName = None
                      /\ errors'.lastName = None
                      /\ errors'.confirmPassword = None
      ]_vars

\* a sign-up form rejected for four fields at once
C19_Witness ==
    /\ Submitted
    /\ mode = "signup"
    /\ errors.email = "InvalidFormat"
    /\ errors.firstName = "Required"
    /\ errors.lastName = None
    /\ errors.password = "WeakComplexity"
    /\ errors.confirmPassword = "Mismatch"

\* C20: validateForm has no side effect.  A submit of a form that does not
\* validate is a call of validateForm and nothing else; it leaves the form
\* data, the mode, the errors on display and the loading flag as they are.
C20_ValidateFormHasNoSideEffect ==
    [][ (handleAuthentication(MaxPending) /\ ~validateForm(mode, formData)) =>
            UNCHANGED <<formData, mode, errors, authIsLoading>>
      ]_vars

----------------------------------------------------------------------------
(* Properties of the stored user *)

C22_UserRoleIsSelectedRole ==
    Stage \in {"LinkedInVerification", "MainApp"} =>
        /\ authenticatedUser # NullUser
        /\ authenticatedUser.role = selectedRole

----------------------------------------------------------------------------
(* Properties of the stages *)

\* C23: Splash is left automatically and only once: with no user input the
\* flow eventually goes from Splash to Welcome, and no step makes Splash the
\* current stage again once it has been left
C23_SplashLeftOnce ==
    /\ (Stage = "Splash") ~> (Stage = "Welcome")
    /\ [][Stage' = "Splash" => Stage = "Splash"]_vars

\* Welcome has been entered from Splash by the splash's own callback
C23_Witness ==
    /\ Stage = "Welcome"
    /\ last.event = "splashComplete"
    /\ last.from = "Splash"

\* what a step that moves the flow on changes: the stage, the alert on
\* display, or the calls, runs and reports outstanding
flowProgress == <<Stage, alerts, authPending, liveRun, staleRuns, reportsPending>>

\* C24: no failure leaves the flow stuck: in every state whose stage is not
\* MainApp a user action or a pending completion that moves the flow on is
\* enabled; while the alert of an ineligible result is on display both of its
\* buttons work, the Connect button behind it is enabled, and the skip
\* confirmation that "Skip for Now" raises can be confirmed
C24_NeverStuck ==
    /\ Stage # "MainApp" => ENABLED <<NextPipeline>>_flowProgress
    /\ "verificationFailed" \in alerts =>
          /\ ENABLED alertTryAgain("verificationFailed")
          /\ ENABLED alertSkip("verificationFailed")
          /\ Stage = "LinkedInVerification"
          /\ ~(isConnecting \/ isVerifying)
    /\ "skipConfirm" \in alerts => ENABLED alertSkipForNow

\* the evaluation of a run returned false and its alert is on display
C24_Witness ==
    /\ "verificationFailed" \in alerts
    /\ Stage = "LinkedInVerification"
    /\ currentYear = 2015
    /\ currentStep = 2
    /\ verificationSteps[2] = "error"

\* C25: MainApp is absorbing: once the stage is MainApp no later event, the
\* pending completions of authentication and verification included, changes it
C25_MainAppAbsorbing ==
    [][Stage = "MainApp" => Stage' = "MainApp"]_vars

\* C26: an authentication completion that arrives after the user has left
\* Authentication with back changes neither the stored user nor a stage flag
C26_LateCompletionIgnored ==
    [][(authenticationResolved /\ Stage # "Authentication") => UNCHANGED appVars]_vars

\* C27: when validation fails on submit no call is started, no user is
\* created and stored, authenticationComplete is not fired, the loading flag
\* stays false and the stage stays Authentication
C27_FailedSubmitStartsNothing ==
    [][ (handleAuthentication(MaxPending) /\ ~validateForm(mode, formData)) =>
            /\ authPending' = authPending
            /\ authenticatedUser' = authenticatedUser
            /\ last' = last
            /\ ~authIsLoading /\ ~authIsLoading'
            /\ Stage = "Authentication" /\ Stage' = "Authentication"
      ]_vars

\* a submit has failed validation: its errors are on display, nothing is
\* pending and no user is stored
C27_Witness ==
    /\ Stage = "Authentication"
    /\ errors # NoErrors
    /\ ~authIsLoading
    /\ authPending = <<>>
    /\ authenticatedUser = NullUser
    /\ last.event = "roleSelected"

----------------------------------------------------------------------------
(* Properties of the end of a pipeline run *)

\* the evaluation of the profile that every run fetches
MockVerified ==
    verifyNorfolkStateAlumni(mockEducations, norfolkStateVariations, currentYear)

\* C28: verified = true is reported only by a run whose consent succeeded with
\* a matching state value and whose evaluation returned true.  A report is
\* scheduled only by the step that ends the profile fetch, and only when the
\* evaluation is true; a run fetches the profile only after its token
\* exchange, which it starts only when its consent step succeeds; a consent
\* that is cancelled, fails or carries another state value schedules nothing;
\* and when the evaluation is false nothing is ever reported as verified.
C28_VerifiedOnlyAfterConsentAndEvaluation ==
    [][ /\ reportsPending' > reportsPending =>
              /\ \E live \in BOOLEAN : fetchLinkedInProfileResolved(live)
              /\ reportsPending' = reportsPending + 1
              /\ RunsAt("fetchLinkedInProfile")' = RunsAt("fetchLinkedInProfile") - 1
              /\ MockVerified
        /\ RunsAt("fetchLinkedInProfile")' > RunsAt("fetchLinkedInProfile") =>
              /\ \E live \in BOOLEAN : exchangeCodeForTokensResolved(live)
              /\ RunsAt("exchangeCodeForTokens")' = RunsAt("exchangeCodeForTokens") - 1
        /\ RunsAt("exchangeCodeForTokens")' > RunsAt("exchangeCodeForTokens") =>
              /\ ConsentStep("success")
              /\ RunsAt("startAsync")' = RunsAt("startAsync") - 1
        /\ \A result \in ConsentResults \ {"success"} :
              ConsentStep(result) =>
                  /\ reportsPending' = reportsPending
                  /\ RunsAt("exchangeCodeForTokens")' = RunsAt("exchangeCodeForTokens")
                  /\ RunsAt("fetchLinkedInProfile")' = RunsAt("fetchLinkedInProfile")
        /\ (last'.event = "verificationComplete" /\ last'.arg = "verified"
                /\ last' # last) =>
              /\ verificationReported
              /\ reportsPending > 0
        /\ (reportsPending' > 0 \/ last'.arg = "verified") => MockVerified
      ]_vars

\* a run whose consent succeeded and whose evaluation returned true has
\* reported
C28_Witness ==
    /\ MockVerified
    /\ last.event = "verificationComplete"
    /\ last.arg = "verified"
    /\ last.from = "LinkedInVerification"
    /\ Stage = "MainApp"
    /\ reportsPending = 0

\* C29: every run of the pipeline, however it ends, ends with isConnecting
\* and isVerifying both false, so that the Connect button is enabled again:
\* whenever no run of the mounted screen is in progress both flags are false,
\* and the step that ends a run of the mounted screen leaves them false
C29_RunEndsWithFlagsCleared ==
    /\ liveRun = "idle" => ~isConnecting /\ ~isVerifying
    /\ (Stage = "LinkedInVerification" /\ NoAlert /\ liveRun = "idle"
           /\ RunsOutstanding < MaxRuns) =>
          ENABLED handleLinkedInConnect(MaxRuns)

\* a run of the mounted screen has ended in the catch block, after the flags
\* were set
C29_Witness ==
    /\ Stage = "LinkedInVerification"
    /\ "connectionFailed" \in alerts
    /\ liveRun = "idle"
    /\ ~isConnecting
    /\ ~isVerifying

----------------------------------------------------------------------------
(* Properties of a submitted form *)

\* C30: every submit of a valid form eventually fires authenticationComplete
\* exactly once, with a user whose email and role are the email of the form
\* and the role at the time of the submit, and the loading flag is false
\* afterwards.  A call is started only by a submit of a form that validates,
\* and holds the email of the form and the selected role; the calls complete
\* one at a time in the order they were started; the completion of a call
\* hands over a user with the email and the role the call holds, fires
\* authenticationComplete and leaves the loading flag false; and calls do
\* not stay pending: again and again no call is pending or a call completes.
C30_ValidSubmitCompletesOnce ==
    /\ [][ /\ Len(authPending') > Len(authPending) =>
                 /\ Stage = "Authentication"
                 /\ validateForm(mode, formData)
                 /\ authIsLoading'
                 /\ Len(authPending') = Len(authPending) + 1
                 /\ SubSeq(authPending', 1, Len(authPending)) = authPending
                 /\ authPending'[Len(authPending')].email = formData.email
                 /\ authPending'[Len(authPending')].userRole = selectedRole
           /\ Len(authPending') < Len(authPending) =>
                 /\ authenticationResolved
                 /\ authPending' = Tail(authPending)
           /\ Len(authPending') = Len(authPending) => authPending' = authPending
           /\ authenticationResolved =>
                 /\ authenticatedUser'.email = Head(authPending).email
                 /\ authenticatedUser'.role = Head(authPending).userRole
                 /\ last'.event = "authenticationComplete"
                 /\ last'.arg = Head(authPending).userRole
                 /\ ~authIsLoading'
           /\ (last'.event = "authenticationComplete"
                   /\ last.event # "authenticationComplete") =>
                 authenticationResolved
          ]_vars
    /\ \/ []<>(authPending = <<>>)
       \/ []<><<authenticationResolved>>_vars

\* the call of a submitted form has completed with the email of the form and
\* the role selected, and nothing is pending
C30_Witness ==
    /\ last.event = "authenticationComplete"
    /\ last.from = "Authentication"
    /\ authPending = <<>>
    /\ authenticatedUser # NullUser
    /\ authenticatedUser.email = <<"a", "@", "b", ".", "c">>
    /\ authenticatedUser.role = selectedRole
    /\ ~authIsLoading

----------------------------------------------------------------------------
(* Properties of the eligibility check *)

\* the same letter, in either case
SameLetter(c, d) ==
    \/ c = d
    \/ \E k \in 1..Len(UpperAlphabet) :
          {c, d} = {UpperAlphabet[k], LowerAlphabet[k]}

\* variant occurs in name as a substring, letter case ignored
ContainsIgnoringCase(name, variant) ==
    \E from \in 1..(Len(name) + 1) :
        /\ from + Len(variant) - 1 <= Len(name)
        /\ \A k \in 1..Len(variant) : SameLetter(name[from + k - 1], variant[k])

NameAccepted(edu) ==
    \E v \in 1..Len(variations) : ContainsIgnoringCase(edu.schoolName, variations[v])

EndedBefore(edu, year) ==
    /\ edu.endDate \in [year : Int]
    /\ edu.endDate.year < year

\* C8: the check returns true iff at least one education record by itself
\* has an accepted institution name (case-insensitive substring) and an end
\* year strictly before the current year; so false for the empty list and when
\* only different records meet the two conditions.
C8_EligibleIffOneRecordQualifies ==
    isVerified # <<>> =>
        (isVerified[1] <=>
            \E e \in 1..Len(education) :
                /\ NameAccepted(education[e])
                /\ EndedBefore(education[e], currentYear))

\* the two conditions are met, by different records only
C8_Witness ==
    /\ isVerified = <<FALSE>>
    /\ \E e \in 1..Len(education) : NameAccepted(education[e])
    /\ \E e \in 1..Len(education) : EndedBefore(education[e], currentYear)

Disqualified(edu) ==
    \/ edu.endDate = NoDate
    \/ edu.endDate.year >= currentYear

\* C9: records whose end year is missing, the current year or later never make
\* the check true: the result is that of the check without them, and false
\* when every record is such a record.
C9_NoPastEndYearNeverEligible ==
    isVerified # <<>> =>
        /\ isVerified[1] =
              verifyNorfolkStateAlumni(
                  SelectSeq(education, LAMBDA edu : ~Disqualified(edu)),
                  variations, currentYear)
        /\ (\A e \in 1..Len(education) : Disqualified(education[e]))
              => isVerified[1] = FALSE

C9_Witness ==
    /\ isVerified = <<FALSE>>
    /\ \E e \in 1..Len(education) :
          /\ NameAccepted(education[e])
          /\ education[e].endDate # NoDate
          /\ education[e].endDate.year = currentYear
    /\ \E e \in 1..Len(education) :
          /\ NameAccepted(education[e])
          /\ education[e].endDate = NoDate

Reordered(seq, p) == [i \in 1..Len(seq) |-> seq[p[i]]]

\* C10: for the same current year, every permutation of the education records
\* and every permutation of the variant list gives the result returned.
C10_OrderIndependent ==
    isVerified # <<>> =>
        \A p \in Permutations(1..Len(education)) :
            \A q \in Permutations(1..Len(variations)) :
                verifyNorfolkStateAlumni(Reordered(education, p),
                                         Reordered(variations, q),
                                         currentYear) = isVerified[1]

\* true on account of the last record and the last variant only
C10_Witness ==
    /\ isVerified = <<TRUE>>
    /\ Len(education) = MaxRecords
    /\ Len(variations) = 2
    /\ \A e \in 1..(Len(education) - 1) :
          ~(NameAccepted(education[e]) /\ EndedBefore(education[e], currentYear))
    /\ ~ContainsIgnoringCase(education[Len(education)].schoolName, variations[1])

====
